---- MODULE Spec2Model ----
(***************************************************************************)
(* Model of src/crackers/xor_ciphers.rs: the single-byte XOR key search,   *)
(* the batch detector, the key-size search by normalised Hamming distance  *)
(* and the repeating-key recovery that combines them.                      *)
(*                                                                         *)
(* Buffers are sequences of bytes (0..255).  Rust slices are 0-based and   *)
(* half-open; Slice(text, lo, hi) is text[lo..hi].  A panic (a slice or an *)
(* index out of range) is the field panic of the result.                   *)
(***************************************************************************)
EXTENDS Integers, Sequences, FiniteSets, TLC

VARIABLES
    pc,          \* "idle", or which call has returned
    ciphertext,  \* the buffer handed to the single-byte or the key-size search
    batch,       \* the buffers handed to the detector
    found_key,   \* what find_key_single_byte_xor_cipher returned
    detected,    \* what detect_and_crack_single_byte_xor_cipher returned
    keysize,     \* what find_key_size_repeating_xor_cipher returned, or its panic
    key          \* the key recovered for that key size

vars == <<pc, ciphertext, batch, found_key, detected, keysize, key>>

\* ------------------------------------------------------------------ bounds
MaxLen == 2         \* longest ciphertext handed to the single-byte search
MaxBatch == 2       \* largest batch handed to the detector
MaxExtra == 2       \* the key-size inputs extend to 440 + 20 * MaxExtra bytes

\* --------------------------------------------------------------- constants
MIN_KEYSIZE == 2
MAX_KEYSIZE == 40
NUM_BLOCKS_AVG_DIST == 10
KEY_RANGE_START == 0
KEY_RANGE_END == 255     \* (0u8..255): the end of the range is exclusive

Byte == 0..255

\* ------------------------------------------------------- bytes and buffers
RECURSIVE BitXor(_, _, _)
BitXor(a, b, n) ==
    IF n = 0 THEN 0
    ELSE (((a % 2) + (b % 2)) % 2) + 2 * BitXor(a \div 2, b \div 2, n - 1)

RECURSIVE BitCount(_, _)
BitCount(a, n) == IF n = 0 THEN 0 ELSE (a % 2) + BitCount(a \div 2, n - 1)

XorTab == [a \in Byte |-> [b \in Byte |-> BitXor(a, b, 8)]]
PopTab == [a \in Byte |-> BitCount(a, 8)]

\* text[lo..hi] of Rust is in range (it panics otherwise)
SliceOk(text, lo, hi) == lo <= hi /\ hi <= Len(text)
Slice(text, lo, hi) == SubSeq(text, lo + 1, hi)

\* xor(data, &k): every byte of data XORed with the single key byte
xor(data, k) == [i \in 1..Len(data) |-> XorTab[data[i]][k]]

RECURSIVE SumPop(_, _, _)
SumPop(a, b, i) ==
    IF i > Len(a) THEN 0 ELSE PopTab[XorTab[a[i]][b[i]]] + SumPop(a, b, i + 1)

\* the number of differing bits of two buffers of equal length
hamming_distance(a, b) == SumPop(a, b, 1)

\* --------------------------------------------------------- language scorer
\* letters by frequency rank ("etaoin shrdlu"), folded to lower case
LetterWeight(c) ==
    CASE c = 101 -> 12 [] c = 116 -> 11 [] c = 97 -> 10 [] c = 111 -> 9
      [] c = 105 -> 8 [] c = 110 -> 7 [] c = 115 -> 6 [] c = 104 -> 5
      [] c = 114 -> 4 [] c = 100 -> 3 [] c = 108 -> 3 [] c = 117 -> 2
      [] OTHER -> 1

CharScore(b) ==
    IF b = 32 THEN 13
    ELSE IF b >= 97 /\ b <= 122 THEN LetterWeight(b)
    ELSE IF b >= 65 /\ b <= 90 THEN LetterWeight(b + 32)
    ELSE IF b >= 33 /\ b <= 126 THEN 0
    ELSE IF b = 10 THEN 0
    ELSE -5

ScoreTab == [b \in Byte |-> CharScore(b)]

\* the sum of the scores of data[lo..hi], by halves
RECURSIVE SumScore(_, _, _)
SumScore(data, lo, hi) ==
    IF lo > hi THEN 0
    ELSE IF lo = hi THEN ScoreTab[data[lo]]
    ELSE LET mid == (lo + hi) \div 2
         IN  SumScore(data, lo, mid) + SumScore(data, mid + 1, hi)

english_score(data) == SumScore(data, 1, Len(data))

\* f64::total_cmp on two finite scores
total_cmp(a, b) == IF a < b THEN "Less" ELSE IF a > b THEN "Greater" ELSE "Equal"

\* ------------------------------------------------- Iterator::max_by/min_by
\* max_by folds with: Greater keeps the element held, anything else takes the
\* next one, so of two equal elements the later one is returned
MaxByKeepsHeldOnTie(ord) == ord # "Less"
MaxByKeepsHeld(ord) == ord = "Greater"

\* min_by folds with: Greater takes the next element, anything else keeps the
\* one held, so of two equal elements the earlier one is returned
MinByKeepsHeldOnLess(ord) == ord = "Less"
MinByKeepsHeld(ord) == ord # "Greater"

\* ------------------------------------------------------- single-byte search
\* the score of every candidate key of the range start..end-1; the closure of
\* max_by computes the two scores it compares anew at every step, and the
\* score is a function of the candidate alone, so each is computed here once
KeyScores(ct, start, end) ==
    [k \in start..(end - 1) |-> english_score(xor(ct, k))]

\* the closure of max_by: the two candidate keys compared by score
CompareKeys(scores, x, y) == total_cmp(scores[x], scores[y])

\* the left fold of max_by over the candidates next..end-1, best so far first
RECURSIVE FoldRun(_, _, _, _)
FoldRun(scores, best, next, end) ==
    IF next >= end THEN best
    ELSE IF MaxByKeepsHeld(CompareKeys(scores, best, next))
         THEN FoldRun(scores, best, next + 1, end)
         ELSE FoldRun(scores, next, next + 1, end)

\* the same fold taken in runs of FoldStride candidates: this bounds the depth
\* of the evaluation and changes nothing else
FoldStride == 16
RECURSIVE FoldKeys(_, _, _, _)
FoldKeys(scores, best, next, end) ==
    IF next >= end THEN best
    ELSE LET stop == IF next + FoldStride < end THEN next + FoldStride ELSE end
         IN  FoldKeys(scores, FoldRun(scores, best, next, stop), stop, end)

\* (0u8..255): the candidates the fold runs over; the end is exclusive
CandidateKeysInclusive == KEY_RANGE_START..KEY_RANGE_END
CandidateKeys == KEY_RANGE_START..(KEY_RANGE_END - 1)

\* the range is not empty, so the expect after max_by never fails
find_key_single_byte_xor_cipher(ct) ==
    LET first == CHOOSE k \in CandidateKeys : \A c \in CandidateKeys : k <= c
        last == CHOOSE k \in CandidateKeys : \A c \in CandidateKeys : k >= c
    IN  FoldKeys(KeyScores(ct, first, last + 1), first, first + 1, last + 1)

\* ------------------------------------------------------------ batch detector
Decrypt(ct) == xor(ct, find_key_single_byte_xor_cipher(ct))

\* the closure of max_by: two decrypted buffers compared by score
ComparePlainSwapped(x, y) == total_cmp(english_score(y), english_score(x))
ComparePlain(x, y) == total_cmp(english_score(x), english_score(y))

RECURSIVE FoldPlain(_, _, _)
FoldPlain(plains, best, i) ==
    IF i > Len(plains) THEN best
    ELSE IF MaxByKeepsHeld(ComparePlain(best, plains[i]))
         THEN FoldPlain(plains, best, i + 1)
         ELSE FoldPlain(plains, plains[i], i + 1)

\* possible_ciphertexts.is_empty()
EmptyGuardMissesOne(cts) == Len(cts) <= 1
EmptyGuard(cts) == Len(cts) = 0

detect_and_crack_single_byte_xor_cipher(cts) ==
    IF EmptyGuard(cts) THEN [ok |-> FALSE, err |-> "EmptyArrayError", val |-> <<>>]
    ELSE LET plains == [i \in 1..Len(cts) |-> Decrypt(cts[i])]
         IN  [ok |-> TRUE, err |-> "none", val |-> FoldPlain(plains, plains[1], 2)]

\* ---------------------------------------------------------- key-size search
\* the slices of one comparison are in range
BlocksOk(text, s, i) ==
    /\ SliceOk(text, s * i, s * (i + 1))
    /\ SliceOk(text, s * (i + 1), s * (i + 2))

BlockDistance(text, s, i) ==
    hamming_distance(Slice(text, s * i, s * (i + 1)),
                     Slice(text, s * (i + 1), s * (i + 2)))

RECURSIVE SumBlocks(_, _, _, _)
SumBlocks(text, s, i, n) ==
    IF i >= n THEN 0 ELSE BlockDistance(text, s, i) + SumBlocks(text, s, i + 1, n)

NumComparisonsOneMore == NUM_BLOCKS_AVG_DIST + 1
NumComparisons == NUM_BLOCKS_AVG_DIST

\* the f64 quotient total / (NUM_BLOCKS_AVG_DIST * block_size) is kept as the
\* pair (num, den): both are below 2^53 and two distinct quotients of this
\* size never round to the same f64, so comparing by cross multiplication is
\* what total_cmp does on the quotients
average_hamming_distance_unnormalised(text, block_size) ==
    IF \E i \in 0..(NumComparisons - 1) : ~BlocksOk(text, block_size, i)
    THEN [panic |-> TRUE, num |-> 0, den |-> 1]
    ELSE [panic |-> FALSE,
          num |-> SumBlocks(text, block_size, 0, NumComparisons),
          den |-> NumComparisons]

average_hamming_distance(text, block_size) ==
    IF \E i \in 0..(NumComparisons - 1) : ~BlocksOk(text, block_size, i)
    THEN [panic |-> TRUE, num |-> 0, den |-> 1]
    ELSE [panic |-> FALSE,
          num |-> SumBlocks(text, block_size, 0, NumComparisons),
          den |-> NumComparisons * block_size]

total_cmp_quot(dx, dy) == total_cmp(dx.num * dy.den, dy.num * dx.den)

\* the closure of min_by: two candidate sizes compared by average distance
CompareSizes(text, x, y) ==
    LET dx == average_hamming_distance(text, x)
        dy == average_hamming_distance(text, y)
    IN  IF dx.panic \/ dy.panic THEN "Panic" ELSE total_cmp_quot(dx, dy)

RECURSIVE FoldSizes(_, _, _, _)
FoldSizes(text, best, next, end) ==
    IF next >= end THEN [panic |-> FALSE, size |-> best]
    ELSE LET ord == CompareSizes(text, best, next)
         IN  IF ord = "Panic" THEN [panic |-> TRUE, size |-> 0]
             ELSE IF MinByKeepsHeld(ord)
                  THEN FoldSizes(text, best, next + 1, end)
                  ELSE FoldSizes(text, next, next + 1, end)

\* MIN_KEYSIZE..MAX_KEYSIZE+1 is not empty, so the expect never fails
find_key_size_repeating_xor_cipher(text) ==
    FoldSizes(text, MIN_KEYSIZE, MIN_KEYSIZE + 1, MAX_KEYSIZE + 1)

\* ------------------------------------------------------ repeating-key recovery
\* chunks_exact(keysize): the whole blocks, the remainder dropped
NumChunksWithRemainder(text, size) == (Len(text) + size - 1) \div size
NumChunks(text, size) == Len(text) \div size

Min(a, b) == IF a < b THEN a ELSE b

chunks_exact(text, size) ==
    [j \in 1..NumChunks(text, size) |->
        SubSeq(text, (j - 1) * size + 1, Min(j * size, Len(text)))]

\* chunks.iter().map(|chunk| chunk[i]).collect(): chunk[i] panics out of range
EntriesOk(chunks, i) == \A j \in 1..Len(chunks) : i < Len(chunks[j])
IthChunkEntries(chunks, i) == [j \in 1..Len(chunks) |-> chunks[j][i + 1]]

KeyPositionsShort(size) == 0..(size - 2)
KeyPositions(size) == 0..(size - 1)

\* lines 119-132: the key size, the chunks, one key byte per position
recover_key(text, size) ==
    LET chunks == chunks_exact(text, size)
        pos == KeyPositions(size)
    IN  IF \E i \in pos : ~EntriesOk(chunks, i)
        THEN [panic |-> TRUE, bytes |-> <<>>]
        ELSE [panic |-> FALSE,
              bytes |-> [n \in 1..Cardinality(pos) |->
                  find_key_single_byte_xor_cipher(IthChunkEntries(chunks, n - 1))]]

\* ------------------------------------------------------------------ inputs
SeqsUpTo(S, n) == UNION {[1..k -> S] : k \in 0..n}

\* ' ' and 'e' under key 0xFF, 'E' and 'e', and the first bytes of the
\* test ciphertext of can_crack_single_byte_xor_cipher
SingleBytes == {0, 27, 32, 55, 69, 101, 154, 223}
SingleInputs == SeqsUpTo(SingleBytes, MaxLen)

BatchPool == {<<>>, <<0>>, <<69, 0>>, <<223>>, <<154, 223>>, <<27, 55, 55>>}
BatchInputs == SeqsUpTo(BatchPool, MaxBatch)

\* the least length the key-size search needs: 11 blocks of 40 bytes
FullLen == MAX_KEYSIZE * (NUM_BLOCKS_AVG_DIST + 1)

PatByte(seed, j) == (seed * (j + 1) + 7 * j * j) % 256
\* byte n (from 0) of a text of period p; past FullLen a "flip" text is inverted
GenByte(p, seed, flip, n) ==
    IF flip /\ n >= FullLen THEN 255 - PatByte(seed, n % p) ELSE PatByte(seed, n % p)
GenText(p, seed, flip, len) == [i \in 1..len |-> GenByte(p, seed, flip, i - 1)]

\* texts too short for the key-size search, of every period and seed
ShortPeriods == {1, 2, 3, 5, 97}
ShortSeeds == {1, 37, 113}
ShortLens == {0, 1, 2, 21, 22, 23, 43, 44, 45, 100}
ShortInputs ==
    {GenText(p, seed, FALSE, len) : p \in ShortPeriods, seed \in ShortSeeds, len \in ShortLens}

\* texts long enough: identical bytes, a short period, no period within reach
LongPeriods == {1, 3, 97}
LongLens == {FullLen + 20 * e : e \in 0..MaxExtra} \cup {FullLen - 1}
LongInputs ==
    {GenText(p, 37, flip, len) : p \in LongPeriods, flip \in BOOLEAN, len \in LongLens}

\* an English-like text under a repeating key of RepeatKeyLen bytes
Letters == <<101, 116, 97, 111, 105, 110, 32, 115, 104, 114, 100, 108, 117>>
RepeatKey == <<75, 101, 121, 33, 35>>
RepeatKeyLen == Len(RepeatKey)
PlainByte(n) == Letters[((7 * n * n + 3 * n) % Len(Letters)) + 1]
RepeatText(len) ==
    [i \in 1..len |-> XorTab[PlainByte(i - 1)][RepeatKey[((i - 1) % RepeatKeyLen) + 1]]]
RepeatInputs == {RepeatText(len) : len \in LongLens}

KeySizeInputs == ShortInputs \cup LongInputs \cup RepeatInputs

\* ----------------------------------------------------------- state machine
NoKey == 0 - 1     \* no key returned yet
NoDetected == [ok |-> FALSE, err |-> "none", val |-> <<>>]
NoKeySize == [panic |-> FALSE, size |-> 0]
NoRecovered == [panic |-> FALSE, bytes |-> <<>>]

Init ==
    /\ pc = "idle"
    /\ ciphertext = <<>>
    /\ batch = <<>>
    /\ found_key = NoKey
    /\ detected = NoDetected
    /\ keysize = NoKeySize
    /\ key = NoRecovered

\* a call of find_key_single_byte_xor_cipher
CrackSingle ==
    /\ pc = "idle"
    /\ \E ct \in SingleInputs :
          /\ ciphertext' = ct
          /\ found_key' = find_key_single_byte_xor_cipher(ct)
    /\ pc' = "cracked"
    /\ UNCHANGED <<batch, detected, keysize, key>>

\* a call of detect_and_crack_single_byte_xor_cipher
DetectAndCrack ==
    /\ pc = "idle"
    /\ \E cts \in BatchInputs :
          /\ batch' = cts
          /\ detected' = detect_and_crack_single_byte_xor_cipher(cts)
    /\ pc' = "detected"
    /\ UNCHANGED <<ciphertext, found_key, keysize, key>>

\* a call of find_key_size_repeating_xor_cipher (line 119)
FindKeySize ==
    /\ pc = "idle"
    /\ \E ct \in KeySizeInputs :
          /\ ciphertext' = ct
          /\ keysize' = find_key_size_repeating_xor_cipher(ct)
    /\ pc' = "sized"
    /\ UNCHANGED <<batch, found_key, detected, key>>

\* lines 121-132, reached when the key-size search returned
RecoverKey ==
    /\ pc = "sized"
    /\ ~keysize.panic
    /\ key' = recover_key(ciphertext, keysize.size)
    /\ pc' = "keyed"
    /\ UNCHANGED <<ciphertext, batch, found_key, detected, keysize>>

\* the call is over: the next one starts from nothing (no state is shared)
Return ==
    /\ pc \in {"cracked", "detected"}
    /\ pc' = "idle"
    /\ ciphertext' = <<>>
    /\ batch' = <<>>
    /\ found_key' = NoKey
    /\ detected' = NoDetected
    /\ UNCHANGED <<keysize, key>>

ReturnKeySize ==
    /\ pc \in {"sized", "keyed"}
    /\ pc' = "idle"
    /\ ciphertext' = <<>>
    /\ keysize' = NoKeySize
    /\ key' = NoRecovered
    /\ UNCHANGED <<batch, found_key, detected>>

Next == CrackSingle \/ DetectAndCrack \/ Return

Spec == Init /\ [][Next]_vars

NextKeySize == FindKeySize \/ RecoverKey \/ ReturnKeySize

SpecKeySize == Init /\ [][NextKeySize]_vars

\* ================================================================== claims
\* the score of the ciphertext decrypted under the candidate key c
ScoreUnder(ct, c) == english_score(xor(ct, c))

AllBytes == 0..255
EvaluatedKeys == 0..254

\* C1: for a non-empty ciphertext the key returned scores at least as well as
\* every candidate of 0..255, all 256 of them
C1_MaximalOverAllBytes ==
    (pc = "cracked" /\ ciphertext # <<>>) =>
        \A c \in AllBytes : ScoreUnder(ciphertext, found_key) >= ScoreUnder(ciphertext, c)

\* C2 as stated, on the non-empty ciphertexts and the candidates below 255: of
\* the candidates with the maximal score the smallest is returned
C2_SmallestWinsTies ==
    (pc = "cracked" /\ ciphertext # <<>>) =>
        \A c \in EvaluatedKeys :
            ScoreUnder(ciphertext, c) >= ScoreUnder(ciphertext, found_key) => found_key <= c

\* C2 as amended: the key returned has the maximal score among the candidates
\* evaluated (0..254), and of the candidates with that score it is the largest
C2_LargestWinsTies ==
    pc = "cracked" =>
        /\ found_key \in EvaluatedKeys
        /\ \A c \in EvaluatedKeys :
              /\ ScoreUnder(ciphertext, c) <= ScoreUnder(ciphertext, found_key)
              /\ ScoreUnder(ciphertext, c) = ScoreUnder(ciphertext, found_key) => c <= found_key

\* a search returned where two candidates below 255 share the maximal score
C2_Witness ==
    /\ pc = "cracked"
    /\ ciphertext # <<>>
    /\ \E c \in EvaluatedKeys :
          c # found_key /\ ScoreUnder(ciphertext, c) = ScoreUnder(ciphertext, found_key)

\* C3 as stated: the empty ciphertext yields key 0
C3_EmptyYieldsZero ==
    (pc = "cracked" /\ ciphertext = <<>>) => found_key = 0

\* C3 as amended: every search returns a byte, and the empty ciphertext yields
\* 254, the last candidate evaluated
C3_EmptyYieldsLast ==
    pc = "cracked" =>
        /\ found_key \in AllBytes
        /\ ciphertext = <<>> => found_key = 254

\* the search returned on the empty ciphertext
C3_Witness == pc = "cracked" /\ ciphertext = <<>>

\* C5: for a non-empty batch the detector returns Ok(p), p the decryption of a
\* member under its own key, and no member's decryption scores higher
C5_BestOfBatch ==
    (pc = "detected" /\ batch # <<>>) =>
        /\ detected.ok
        /\ \E i \in 1..Len(batch) :
              detected.val = xor(batch[i], find_key_single_byte_xor_cipher(batch[i]))
        /\ \A j \in 1..Len(batch) :
              english_score(detected.val) >=
                  english_score(xor(batch[j], find_key_single_byte_xor_cipher(batch[j])))

\* the detector returned on a batch whose members decrypt to different scores
C5_Witness ==
    /\ pc = "detected"
    /\ Len(batch) >= 2
    /\ \E j \in 1..Len(batch) :
          english_score(xor(batch[j], find_key_single_byte_xor_cipher(batch[j])))
              < english_score(detected.val)

\* C6: the detector returns EmptyArrayError exactly when the batch is empty
C6_ErrorIffEmpty ==
    pc = "detected" =>
        /\ (~detected.ok) <=> (batch = <<>>)
        /\ (~detected.ok) => detected.err = "EmptyArrayError"

\* the detector returned Ok on a batch that holds an empty buffer
C6_Witness ==
    /\ pc = "detected"
    /\ detected.ok
    /\ \E i \in 1..Len(batch) : batch[i] = <<>>

\* block j (from 0) of size s, and the distance D(s) of the claims as the pair
\* of its numerator and its denominator 10 * s
ClaimBlock(text, s, j) == SubSeq(text, s * j + 1, s * (j + 1))

RECURSIVE ClaimSum(_, _, _)
ClaimSum(text, s, i) ==
    IF i > 9 THEN 0
    ELSE hamming_distance(ClaimBlock(text, s, i), ClaimBlock(text, s, i + 1))
             + ClaimSum(text, s, i + 1)

ClaimSizes == 2..40
ClaimFullLen == 40 * 11

\* D(s) <= D(t) and D(s) = D(t), by cross multiplication
DistLeq(text, s, t) == ClaimSum(text, s, 0) * (10 * t) <= ClaimSum(text, t, 0) * (10 * s)
DistEq(text, s, t) == ClaimSum(text, s, 0) * (10 * t) = ClaimSum(text, t, 0) * (10 * s)

Sized == pc \in {"sized", "keyed"}

\* C4: on a ciphertext of at least 440 bytes the search returns a size of
\* 2..40 whose normalised distance is the least of all sizes of 2..40
C4_MinimalDistance ==
    (Sized /\ Len(ciphertext) >= ClaimFullLen) =>
        /\ ~keysize.panic
        /\ keysize.size \in ClaimSizes
        /\ \A t \in ClaimSizes : DistLeq(ciphertext, keysize.size, t)

\* the search returned on a long text whose least distance is not zero and is
\* reached at a size other than the first candidate
C4_Witness ==
    /\ pc = "sized"
    /\ Len(ciphertext) >= ClaimFullLen
    /\ ~keysize.panic
    /\ keysize.size > 2
    /\ ClaimSum(ciphertext, keysize.size, 0) > 0

\* C7: the key-size search never aborts, whatever the length of the text
C7_NeverAborts == pc = "sized" => ~keysize.panic

\* C9: of the sizes with the least distance the smallest is returned, and 440
\* identical bytes yield 2
C9_SmallestSizeWinsTies ==
    (Sized /\ ~keysize.panic) =>
        /\ \A t \in ClaimSizes : DistEq(ciphertext, keysize.size, t) => keysize.size <= t
        /\ (Len(ciphertext) = ClaimFullLen
                /\ \A i \in 1..Len(ciphertext) : ciphertext[i] = ciphertext[1])
              => keysize.size = 2

\* the search returned a size above 2 that shares the least distance with others
C9_Witness ==
    /\ pc = "sized"
    /\ ~keysize.panic
    /\ keysize.size > 2
    /\ \E t \in ClaimSizes : t # keysize.size /\ DistEq(ciphertext, keysize.size, t)

\* the first 440 bytes of a text
First440(text) == SubSeq(text, 1, ClaimFullLen)

\* C10: the size returned for a text of at least 440 bytes is the size returned
\* for its first 440 bytes alone, and for every other text with those 440 bytes
C10_OnlyFirst440 ==
    (Sized /\ Len(ciphertext) >= ClaimFullLen) =>
        /\ find_key_size_repeating_xor_cipher(First440(ciphertext)) = keysize
        /\ \A other \in LongInputs :
              (Len(other) >= ClaimFullLen /\ First440(other) = First440(ciphertext))
                  => find_key_size_repeating_xor_cipher(other) = keysize

\* the search returned on a text longer than 440 bytes, and another text with
\* the same first 440 bytes and other bytes after them is an input too
C10_Witness ==
    /\ pc = "sized"
    /\ ~keysize.panic
    /\ Len(ciphertext) > ClaimFullLen
    /\ \E other \in LongInputs :
          /\ Len(other) = Len(ciphertext)
          /\ First440(other) = First440(ciphertext)
          /\ other # ciphertext

\* the text with the bytes of its final partial block of size s set to zero
ZeroRemainder(text, s) ==
    [i \in 1..Len(text) |-> IF i > s * (Len(text) \div s) THEN 0 ELSE text[i]]

\* C8: the key recovered for the size s has s bytes, byte i is the single-byte
\* key of the buffer of the bytes j*s + i of the whole blocks, and the bytes of
\* a final partial block do not change it
C8_KeyFromWholeBlocks ==
    pc = "keyed" =>
        LET s == keysize.size
            n == Len(ciphertext) \div s
        IN  /\ ~key.panic
            /\ Len(key.bytes) = s
            /\ \A i \in 0..(s - 1) :
                  key.bytes[i + 1] = find_key_single_byte_xor_cipher(
                      [j \in 1..n |-> ciphertext[(j - 1) * s + i + 1]])
            /\ recover_key(ZeroRemainder(ciphertext, s), s) = key

\* a key was recovered from a text that ends in a partial block of bytes
\* other than zero
C8_Witness ==
    /\ pc = "keyed"
    /\ ~key.panic
    /\ Len(ciphertext) % keysize.size # 0
    /\ ciphertext[Len(ciphertext)] # 0

====
